---- MODULE Spec2Model ----
(***************************************************************************)
(* PathTree frontend: the FileUpload component, the Dashboard that owns    *)
(* the document and its generated artifacts, and the TutorChat, Flashcards *)
(* and KnowledgeTree components it renders, as state machines over their   *)
(* React state.  Every action is one event                                 *)
(* handler, timer callback or promise continuation; a continuation runs    *)
(* in the same step as the settlement that resumes it (microtasks drain    *)
(* before the next event is taken).                                        *)
(***************************************************************************)
EXTENDS Integers, Sequences, FiniteSets, TLC

\* ------------------------------------------------------------------ bounds
\* handleUpload calls in one behaviour
MaxUploads == 2
\* handleUploadComplete calls in one behaviour of the Dashboard taken alone
MaxRuns == 1
\* documents the Dashboard receives in one behaviour of the tutor chat
MaxDocuments == 2
\* askTutor calls in one behaviour
MaxQuestions == 2
\* cards in the deck the flashcard stage returns
MaxCards == 2
\* answers counted in one study session, and auto-advance timeouts pending at once
MaxAnswers == 1
\* milliseconds the clock advances in one behaviour
MaxClock == 2

\* ------------------------------------------------------------- basic values
Null == [null |-> TRUE]

Min(a, b) == IF a < b THEN a ELSE b

\* uploadState.error is a string or null; null is kept apart from every message
NoError == "<null>"

\* allowedTypes of handleFileSelect
allowedTypes ==
    { "application/pdf",
      "application/vnd.openxmlformats-officedocument.presentationml.presentation",
      "text/plain" }

\* the 50MB limit of handleFileSelect
MaxFileSize == 50 * 1024 * 1024

TypeErrorMessage == "Please select a PDF, PPTX, or TXT file"
SizeErrorMessage == "File size must be less than 50MB"

\* Files the user can pick or drop: every allowed MIME type and one that is not,
\* of the largest size within the limit and of the smallest beyond it.
FileTypes == allowedTypes \cup {"image/png"}
FileSizes == {MaxFileSize, MaxFileSize + 1}
Files == [type : FileTypes, size : FileSizes]

\* e.dataTransfer.files / e.target.files: no file, one file, or two unlike files
FileLists ==
    {<<>>} \cup {<<f>> : f \in Files}
    \cup {p \in Files \X Files : p[1].type # p[2].type /\ p[1].size # p[2].size}

\* What uploadDocument can reject with: an Error carrying a message, or a
\* value that is no Error.
UploadFailures == {[isError |-> TRUE, message |-> "Upload rejected"], [isError |-> FALSE]}

\* What the server makes of the u-th upload: a fresh document_id and the text
\* extracted from the file
DocumentOf(u) == [document_id |-> <<"doc", u>>, raw_text |-> <<"text", u>>]

Stages == {"graph", "flashcards", "summary"}
Views == {"upload", "knowledge-tree", "summaries", "flashcards", "tutor"}

Pending == [settled |-> "pending"]
Rejected(reason) == [settled |-> "rejected", reason |-> reason]
Fulfilled(v) == [settled |-> "fulfilled", value |-> v]

VARIABLES
    uploadState,   \* FileUpload: useState<UploadState> of the mounted instance
    uploads,       \* FileUpload: the handleUpload calls made so far, in order
    state,         \* Dashboard: useState<DashboardState>
    runs,          \* Dashboard: the handleUploadComplete calls made so far, in order
    call,          \* the handleFileSelect or handleSendMessage call made in the last
                   \* step: its argument or the input it found, or Null
    messages,      \* TutorChat: useState<Message[]>
    inputValue,    \* TutorChat: useState('')
    isLoading,     \* TutorChat: useState(false)
    tutorCalls,    \* TutorChat: the askTutor calls made so far, in order
    cardState,     \* Flashcards: useState<FlashcardState> (state in the source)
    timeouts,      \* Flashcards: the setTimeout(handleNext, 500) calls not yet fired, in
                   \* order, each with the values its handleNext closed over
    nodes,         \* KnowledgeTree: useNodesState
    edges,         \* KnowledgeTree: useEdgesState
    selectedNode,  \* KnowledgeTree: useState<Node | null>
    messageIds,    \* TutorChat: the id of each message of messages, in order
    now            \* Date.now(), in milliseconds

\* The state of TutorChat, and the clock its message ids are taken from
chatVars == <<messages, inputValue, isLoading, tutorCalls, messageIds, now>>

cardVars == <<cardState, timeouts>>

treeVars == <<nodes, edges, selectedNode>>

vars == <<uploadState, uploads, state, runs, call, messages, inputValue, isLoading, tutorCalls,
          cardState, timeouts, nodes, edges, selectedNode, messageIds, now>>

\* ------------------------------------------------------------------ lib/api
\* apiCall resolves with the parsed body of a successful reply, as it is, and
\* rejects on a transport or HTTP failure.
ApiCall(request, reply) ==
    IF reply.ok THEN Fulfilled(reply.body) ELSE Rejected(reply.error)

uploadDocument(file) ==
    [endpoint |-> "/upload", method |-> "POST", body |-> [file |-> file]]

generateKnowledgeGraph(documentId, content) ==
    [endpoint |-> "/generate/graph", method |-> "POST",
     body |-> [document_id |-> documentId, content |-> content]]

generateSummary(documentId, content) ==
    [endpoint |-> "/generate/summary", method |-> "POST",
     body |-> [document_id |-> documentId, content |-> content]]

generateFlashcards(documentId, content) ==
    [endpoint |-> "/generate/flashcards", method |-> "POST",
     body |-> [document_id |-> documentId, content |-> content]]

\* The replies the server can give to a generation request: an artifact of the
\* endpoint's kind for the request's document, well-formed or not, or a failure.
StageOf(endpoint) ==
    CASE endpoint = "/generate/graph" -> "graph"
      [] endpoint = "/generate/flashcards" -> "flashcards"
      [] endpoint = "/generate/summary" -> "summary"

GenerationReplies(request) ==
    { [ok |-> TRUE,
       body |-> [kind |-> StageOf(request.endpoint),
                 document_id |-> request.body.document_id,
                 valid |-> v]] : v \in BOOLEAN }
    \cup {[ok |-> FALSE, error |-> [isError |-> TRUE, message |-> "generation failed"]]}

\* The successful replies that carry these knowledge graphs and these decks
ContentReplies(request, graphs, decks) ==
    LET s == StageOf(request.endpoint)
        id == request.body.document_id
    IN  CASE s = "graph" ->
               { [ok |-> TRUE,
                  body |-> [kind |-> s, document_id |-> id, valid |-> TRUE,
                            nodes |-> g.nodes, edges |-> g.edges]] : g \in graphs }
          [] s = "flashcards" ->
               { [ok |-> TRUE,
                  body |-> [kind |-> s, document_id |-> id, valid |-> TRUE,
                            flashcards |-> d]] : d \in decks }
          [] s = "summary" ->
               { [ok |-> TRUE, body |-> [kind |-> s, document_id |-> id, valid |-> TRUE]] }

\* ------------------------------------------------------------- FileUpload
InitialUploadState ==
    [file |-> Null, uploading |-> FALSE, progress |-> 0, error |-> NoError, success |-> FALSE]

\* FileUpload is rendered by the Dashboard in the upload view only
Mounted == state.currentView = "upload"

\* handleFileSelect without its type check
handleFileSelect_NoTypeCheck(file) ==
    IF file.size > MaxFileSize
    THEN [uploadState EXCEPT !.error = SizeErrorMessage, !.file = Null]
    ELSE [uploadState EXCEPT !.file = file, !.error = NoError, !.success = FALSE]

\* handleFileSelect with >= for > in its size check
handleFileSelect_OffByOne(file) ==
    IF file.type \notin allowedTypes
    THEN [uploadState EXCEPT !.error = TypeErrorMessage, !.file = Null]
    ELSE IF file.size >= MaxFileSize
    THEN [uploadState EXCEPT !.error = SizeErrorMessage, !.file = Null]
    ELSE [uploadState EXCEPT !.file = file, !.error = NoError, !.success = FALSE]

\* handleFileSelect: the upload state it leaves
handleFileSelect(file) ==
    IF file.type \notin allowedTypes
    THEN [uploadState EXCEPT !.error = TypeErrorMessage, !.file = Null]
    ELSE IF file.size > MaxFileSize
    THEN [uploadState EXCEPT !.error = SizeErrorMessage, !.file = Null]
    ELSE [uploadState EXCEPT !.file = file, !.error = NoError, !.success = FALSE]

\* The drop zone and the file input are rendered while no file is selected
DropZoneRendered == Mounted /\ uploadState.file = Null

\* The X button of the selected file
RemoveButtonRendered ==
    Mounted /\ uploadState.file # Null /\ ~uploadState.uploading /\ ~uploadState.success

\* The "Upload & Process" and Cancel buttons
UploadButtonRendered ==
    /\ Mounted /\ uploadState.file # Null
    /\ ~uploadState.uploading /\ ~uploadState.success /\ uploadState.error = NoError

\* What the component shows of uploadState.error: the error box is part of the
\* branch rendered for a selected file.
RenderedError ==
    IF uploadState.file = Null THEN NoError ELSE uploadState.error

handleDrop(files) ==
    /\ DropZoneRendered
    /\ IF Len(files) > 0
       THEN /\ uploadState' = handleFileSelect(files[1])
            /\ call' = [file |-> files[1]]
       ELSE /\ UNCHANGED uploadState
            /\ call' = Null
    /\ UNCHANGED <<uploads, state, runs, chatVars, cardVars, treeVars>>

handleFileInputChange(files) ==
    /\ DropZoneRendered
    /\ IF Len(files) > 0
       THEN /\ uploadState' = handleFileSelect(files[1])
            /\ call' = [file |-> files[1]]
       ELSE /\ UNCHANGED uploadState
            /\ call' = Null
    /\ UNCHANGED <<uploads, state, runs, chatVars, cardVars, treeVars>>

handleRemoveFile ==
    /\ RemoveButtonRendered
    /\ uploadState' = InitialUploadState
    /\ call' = Null
    /\ UNCHANGED <<uploads, state, runs, chatVars, cardVars, treeVars>>

\* handleUpload up to its await: the state update, the progress interval, the request
handleUpload ==
    /\ UploadButtonRendered
    /\ Len(uploads) < MaxUploads
    /\ uploadState.file # Null
    /\ uploadState' = [uploadState EXCEPT !.uploading = TRUE, !.progress = 0, !.error = NoError]
    /\ uploads' = Append(uploads,
            [request |-> uploadDocument(uploadState.file),
             promise |-> Pending,
             live |-> TRUE,            \* the calling instance is still mounted
             progressInterval |-> TRUE,
             timeout |-> "none"])      \* the setTimeout of onUploadComplete
    /\ call' = Null
    /\ UNCHANGED <<cardVars, treeVars>>
    /\ UNCHANGED <<state, runs, chatVars>>

\* The upload's progress interval fires (every 200 ms until cleared); a state
\* update of an unmounted instance has no effect.
UploadProgressTick(u) ==
    /\ uploads[u].progressInterval
    /\ uploads[u].live
    /\ uploadState' = [uploadState EXCEPT !.progress = Min(@ + 10, 90)]
    /\ call' = Null
    /\ UNCHANGED <<uploads, state, runs, chatVars, cardVars, treeVars>>

\* The upload state handleUpload sets after its await
UploadSucceeded ==
    [uploadState EXCEPT !.uploading = FALSE, !.progress = 100, !.success = TRUE]

\* The catch of handleUpload resetting the whole upload state but the error
UploadFailed_DropsFile(error) ==
    [InitialUploadState EXCEPT
        !.error = IF error.isError THEN error.message ELSE "Upload failed"]

\* The upload state the catch of handleUpload sets
UploadFailed(error) ==
    [uploadState EXCEPT !.uploading = FALSE,
                        !.progress = 0,
                        !.error = IF error.isError THEN error.message ELSE "Upload failed"]

\* uploadDocument resolves: handleUpload continues after its await, clears the
\* interval and sets the timeout that calls onUploadComplete
UploadResolves(u) ==
    /\ uploads[u].promise = Pending
    /\ uploads' = [uploads EXCEPT
            ![u].promise = ApiCall(uploads[u].request, [ok |-> TRUE, body |-> DocumentOf(u)]),
            ![u].progressInterval = FALSE,
            ![u].timeout = "set"]
    /\ uploadState' = IF uploads[u].live THEN UploadSucceeded ELSE uploadState
    /\ call' = Null
    /\ UNCHANGED <<cardVars, treeVars>>
    /\ UNCHANGED <<state, runs, chatVars>>

\* uploadDocument rejects: the catch of handleUpload
UploadRejects(u, error) ==
    /\ uploads[u].promise = Pending
    /\ uploads' = [uploads EXCEPT
            ![u].promise = ApiCall(uploads[u].request, [ok |-> FALSE, error |-> error])]
    /\ uploadState' = IF uploads[u].live
                      THEN UploadFailed(uploads'[u].promise.reason)
                      ELSE uploadState
    /\ call' = Null
    /\ UNCHANGED <<cardVars, treeVars>>
    /\ UNCHANGED <<state, runs, chatVars>>

\* -------------------------------------------------------------- TutorChat
\* Text is a sequence of characters.  What the user can have in the input
\* field: nothing, white space only, a question, a question after white space.
InputTexts == { <<>>, <<" ">>, <<"a">>, <<" ", "a">> }

IsSpace(c) == c = " "

\* String.prototype.trim
RECURSIVE TrimStart(_)
TrimStart(t) ==
    IF t # <<>> /\ IsSpace(Head(t)) THEN TrimStart(Tail(t)) ELSE t

RECURSIVE TrimEnd(_)
TrimEnd(t) ==
    IF t # <<>> /\ IsSpace(t[Len(t)]) THEN TrimEnd(SubSeq(t, 1, Len(t) - 1)) ELSE t

trim(t) == TrimEnd(TrimStart(t))

Greeting ==
    <<"Hello! I'm your AI tutor. I'm here to help you understand concepts from your document. Ask me anything!">>

Apology ==
    <<"I'm sorry, I encountered an error while processing your question. Please try again.">>

InitialMessages == << [type |-> "tutor", content |-> Greeting, tutorData |-> Null] >>

\* The id of the greeting is '1'; the other ids are readings of the clock,
\* which are far from 1
GreetingId == 1
InitialMessageIds == << GreetingId >>
StartTime == 1000

ChatMounted == state.currentView = "tutor"

\* The context prop the Dashboard passes: state.document?.raw_text
Undefined == [undefined |-> TRUE]
context == IF state.document = Null THEN Undefined ELSE state.document.raw_text

\* askTutor: JSON.stringify leaves out a key whose value is undefined
askTutor(question, ctx) ==
    [endpoint |-> "/tutor", method |-> "POST",
     body |-> IF ctx = Undefined
              THEN [question |-> question]
              ELSE [question |-> question, context |-> ctx]]

\* The replies the server can give to a tutor request
TutorReplies(request) ==
    { [ok |-> TRUE, body |-> [explanation |-> <<"explanation of">> \o request.body.question,
                              response_type |-> "explanation"]],
      [ok |-> FALSE, error |-> [isError |-> TRUE, message |-> "tutor failed"]] }

\* onChange of the input field, which is disabled while loading
setInputValue(text) ==
    /\ ChatMounted
    /\ ~isLoading
    /\ inputValue' = text
    /\ call' = Null
    /\ UNCHANGED <<cardVars, treeVars>>
    /\ UNCHANGED <<messages, messageIds, now, isLoading, tutorCalls, uploadState, uploads, state, runs>>

\* handleSendMessage sending the transcript along as context
TutorRequest_WithTranscript == askTutor(inputValue, <<context, messages>>)

\* handleSendMessage reading the input field after it was cleared
TutorRequest_AfterClear == askTutor(<<>>, context)

\* The request handleSendMessage sends
TutorRequest == askTutor(inputValue, context)

\* The user message of handleSendMessage
UserMessage(text) == [type |-> "user", content |-> text, tutorData |-> Null]

\* The tutor message of a fulfilled request
TutorMessage(response) ==
    [type |-> "tutor", content |-> response.explanation, tutorData |-> response]

\* The catch putting what it caught into the message
ErrorMessage_ShowsReason(error) ==
    [type |-> "tutor", content |-> <<error.message>>, tutorData |-> Null]

\* The tutor message of the catch, which does not use what it caught
ErrorMessage(error) == [type |-> "tutor", content |-> Apology, tutorData |-> Null]

\* setMessages putting the new message first
appendMessage_Prepend(prev, message) == <<message>> \o prev

\* setMessages(prev => [...prev, message])
appendMessage(prev, message) == Append(prev, message)

\* handleSendMessage up to its await, from the send button or the Enter key
handleSendMessage ==
    /\ ChatMounted
    /\ ~isLoading
    /\ trim(inputValue) = <<>> \/ Len(tutorCalls) < MaxQuestions
    /\ IF trim(inputValue) = <<>> \/ isLoading
       THEN UNCHANGED chatVars
       ELSE /\ messages' = appendMessage(messages, UserMessage(inputValue))
            /\ messageIds' = Append(messageIds, now)      \* id: Date.now().toString()
            /\ now' = now
            /\ inputValue' = <<>>
            /\ isLoading' = TRUE
            /\ tutorCalls' = Append(tutorCalls,
                    [question |-> inputValue,     \* the input and the prop of this call,
                     context |-> context,
                     transcript |-> messages,     \* and the transcript when it was made
                     request |-> TutorRequest,
                     promise |-> Pending,
                     live |-> TRUE])
    /\ call' = [send |-> inputValue]
    /\ UNCHANGED <<cardVars, treeVars>>
    /\ UNCHANGED <<uploadState, uploads, state, runs>>

\* askTutor settles: the rest of handleSendMessage
TutorSettles(i, reply) ==
    /\ tutorCalls[i].promise = Pending
    /\ LET p == ApiCall(tutorCalls[i].request, reply) IN
       /\ tutorCalls' = [tutorCalls EXCEPT ![i].promise = p]
       /\ IF tutorCalls[i].live
          THEN /\ messages' = appendMessage(messages,
                       IF p.settled = "fulfilled"
                       THEN TutorMessage(p.value)
                       ELSE ErrorMessage(p.reason))
               /\ messageIds' = Append(messageIds, now + 1)  \* id: (Date.now() + 1).toString()
               /\ isLoading' = FALSE
          ELSE UNCHANGED <<messages, messageIds, isLoading>>
    /\ now' = now
    /\ call' = Null
    /\ UNCHANGED <<cardVars, treeVars>>
    /\ UNCHANGED <<inputValue, uploadState, uploads, state, runs>>

\* A millisecond passes
ClockTick ==
    /\ now < StartTime + MaxClock
    /\ now' = now + 1
    /\ call' = Null
    /\ UNCHANGED <<messages, messageIds, inputValue, isLoading, tutorCalls>>
    /\ UNCHANGED <<uploadState, uploads, state, runs, cardVars, treeVars>>

\* A question is sent a millisecond or more after the message before it was
\* appended
TimedSend ==
    /\ trim(inputValue) # <<>>
    /\ Len(messages) > 1 => now >= messageIds[Len(messageIds)]
    /\ handleSendMessage

\* The reply to the question of the mounted chat arrives a millisecond or more
\* after the question was sent
TimedSettle(i, reply) ==
    /\ tutorCalls[i].live => now > messageIds[Len(messageIds)]
    /\ TutorSettles(i, reply)

\* -------------------------------------------------------------- Flashcards
\* The difficulty and category a card of a deck can have, and what the two
\* selects can be set to
CardKinds == { <<"easy", "concept">>, <<"medium", "concept">>, <<"easy", "analysis">> }
DifficultyFilters == {"all", "easy", "medium"}
CategoryFilters == {"all", "concept", "analysis"}

\* FlashcardResponse.flashcards: the decks of up to MaxCards cards, the id of
\* a card being its place in the deck
Decks ==
    UNION { { [k \in 1..n |-> [id |-> k, difficulty |-> kind[k][1], category |-> kind[k][2]]] :
                kind \in [1..n -> CardKinds] } : n \in 0..MaxCards }

InitialFlashcardState ==
    [currentIndex |-> 0, isFlipped |-> FALSE, showAnswer |-> FALSE,
     correctAnswers |-> 0, incorrectAnswers |-> 0, studiedCards |-> {},
     difficulty |-> "all", category |-> "all"]

\* The Dashboard renders Flashcards in the flashcards view, with
\* data = state.flashcards
CardsMounted == state.currentView = "flashcards"

\* data.flashcards
deck == state.flashcards.flashcards

\* The filter with the two conditions joined by || instead of &&
Matches_EitherFilter(card) ==
    \/ cardState.difficulty = "all" \/ card.difficulty = cardState.difficulty
    \/ cardState.category = "all" \/ card.category = cardState.category

\* The predicate of data.flashcards.filter
Matches(card) ==
    /\ cardState.difficulty = "all" \/ card.difficulty = cardState.difficulty
    /\ cardState.category = "all" \/ card.category = cardState.category

filteredCards == SelectSeq(deck, Matches)

totalCards == Len(filteredCards)

\* filteredCards[state.currentIndex], arrays being indexed from 0
currentCard == filteredCards[cardState.currentIndex + 1]

\* The render with the header, the selects, the card and the navigation; it
\* reads currentCard.difficulty and throws when there is no current card
StudyRendered ==
    CardsMounted /\ deck # <<>> /\ totalCards > 0 /\ cardState.currentIndex < totalCards

\* The render with the Clear Filters button alone
NoMatchRendered == CardsMounted /\ deck # <<>> /\ totalCards = 0

\* The values a handleNext closes over: those of the render that made it
Closure == [currentIndex |-> cardState.currentIndex, totalCards |-> totalCards]

\* The state handleNext leaves, called from the render with these values
handleNext(closure) ==
    IF closure.currentIndex < closure.totalCards - 1
    THEN [cardState EXCEPT !.currentIndex = @ + 1, !.isFlipped = FALSE, !.showAnswer = FALSE]
    ELSE cardState

\* The state handlePrevious leaves
handlePrevious ==
    IF cardState.currentIndex > 0
    THEN [cardState EXCEPT !.currentIndex = @ - 1, !.isFlipped = FALSE, !.showAnswer = FALSE]
    ELSE cardState

\* handleFlip showing the answer instead of toggling it
handleFlip_ShowsAnswer ==
    [cardState EXCEPT !.isFlipped = ~@, !.showAnswer = TRUE]

\* The state handleFlip leaves
handleFlip ==
    [cardState EXCEPT !.isFlipped = ~@, !.showAnswer = ~@]

\* The state handleShuffle leaves: the cards array is not shuffled
handleShuffle ==
    [cardState EXCEPT !.currentIndex = 0, !.isFlipped = FALSE, !.showAnswer = FALSE]

\* handleReset putting the filters back as well
handleReset_ClearsFilters == InitialFlashcardState

\* The state handleReset leaves
handleReset ==
    [cardState EXCEPT !.currentIndex = 0, !.isFlipped = FALSE, !.showAnswer = FALSE,
                      !.correctAnswers = 0, !.incorrectAnswers = 0, !.studiedCards = {}]

\* A click that changes the flashcard state and sets no timeout
CardClick(newState) ==
    /\ cardState' = newState
    /\ call' = Null
    /\ UNCHANGED <<timeouts, uploadState, uploads, state, runs, chatVars, treeVars>>

FlipClicked == StudyRendered /\ CardClick(handleFlip)

\* The Next button is disabled on the last card
NextClicked ==
    /\ StudyRendered /\ cardState.currentIndex # totalCards - 1
    /\ CardClick(handleNext(Closure))

\* The Previous button is disabled on the first card
PreviousClicked ==
    /\ StudyRendered /\ cardState.currentIndex # 0
    /\ CardClick(handlePrevious)

ShuffleClicked == StudyRendered /\ CardClick(handleShuffle)

ResetClicked == StudyRendered /\ CardClick(handleReset)

\* onChange of the difficulty select
DifficultySelected(value) ==
    /\ StudyRendered
    /\ CardClick([cardState EXCEPT !.difficulty = value, !.currentIndex = 0])

\* onChange of the category select
CategorySelected(value) ==
    /\ StudyRendered
    /\ CardClick([cardState EXCEPT !.category = value, !.currentIndex = 0])

\* The Clear Filters button
ClearFiltersClicked ==
    /\ NoMatchRendered
    /\ CardClick([cardState EXCEPT !.difficulty = "all", !.category = "all"])

\* handleCorrect and handleIncorrect: the buttons are on the answer side
Answered(counter) ==
    /\ StudyRendered /\ cardState.showAnswer
    /\ cardState.correctAnswers + cardState.incorrectAnswers < MaxAnswers
    /\ Len(timeouts) < MaxAnswers
    /\ cardState' = [cardState EXCEPT ![counter] = @ + 1,
                                      !.studiedCards = @ \cup {currentCard.id}]
    /\ timeouts' = Append(timeouts, Closure)
    /\ call' = Null
    /\ UNCHANGED <<uploadState, uploads, state, runs, chatVars, treeVars>>

handleCorrect == Answered("correctAnswers")

\* handleIncorrect counting the answer as correct
handleIncorrect_CountsCorrect == Answered("correctAnswers")

handleIncorrect == Answered("incorrectAnswers")

\* The oldest pending timeout fires and calls the handleNext it was given.
\* After a render that threw nothing is mounted and the call updates no state.
NextTimeoutFires ==
    /\ timeouts # <<>>
    /\ timeouts' = Tail(timeouts)
    /\ cardState' = IF StudyRendered \/ NoMatchRendered
                    THEN handleNext(Head(timeouts))
                    ELSE cardState
    /\ call' = Null
    /\ UNCHANGED <<uploadState, uploads, state, runs, chatVars, treeVars>>

\* ----------------------------------------------------------- KnowledgeTree
\* KnowledgeGraphResponse: a node has an id, a type and a position, an edge an
\* id, a source and a target
GraphNode(id, type) == [id |-> id, type |-> type, position |-> "given"]
GraphEdge(source, target) == [id |-> <<"e", source, target>>, source |-> source, target |-> target]

\* The knowledge graphs the graph stage returns: a chain, a star and a root alone
Graphs ==
    { [nodes |-> << GraphNode("n1", "root"), GraphNode("n2", "branch"), GraphNode("n3", "leaf") >>,
       edges |-> << GraphEdge("n1", "n2"), GraphEdge("n2", "n3") >>],
      [nodes |-> << GraphNode("n1", "root"), GraphNode("n2", "leaf"), GraphNode("n3", "leaf") >>,
       edges |-> << GraphEdge("n1", "n2"), GraphEdge("n1", "n3") >>],
      [nodes |-> << GraphNode("n1", "root") >>, edges |-> <<>>] }

\* data.nodes || [] and data.edges || [] of the graph the Dashboard holds
NodesOf(graph) == IF "nodes" \in DOMAIN graph THEN graph.nodes ELSE <<>>
EdgesOf(graph) == IF "edges" \in DOMAIN graph THEN graph.edges ELSE <<>>

\* The Dashboard renders KnowledgeTree in the knowledge-tree view, with
\* data = state.knowledgeGraph; without data.nodes it renders a notice only
TreeRendered ==
    state.currentView = "knowledge-tree" /\ NodesOf(state.knowledgeGraph) # <<>>

Range(seq) == {seq[k] : k \in DOMAIN seq}

\* reactflow applyNodeChanges for a position change: the node is replaced by a
\* copy at the new position
MoveNode(id, nds) ==
    [k \in DOMAIN nds |-> IF nds[k].id = id THEN [nds[k] EXCEPT !.position = "dragged"] ELSE nds[k]]

\* reactflow applyNodeChanges / applyEdgeChanges for a remove change
RemoveElement(id, elements) == SelectSeq(elements, LAMBDA el : el.id # id)

\* reactflow addEdge: the edge gets an id made of its ends and is appended,
\* unless the list already connects these two nodes
addEdge(params, eds) ==
    IF \E el \in Range(eds) : el.source = params.source /\ el.target = params.target
    THEN eds
    ELSE Append(eds, [id |-> <<"reactflow__edge", params.source, params.target>>,
                      source |-> params.source, target |-> params.target])

\* The connections the handles allow: RootNode has a source handle, LeafNode a
\* target handle, BranchNode both
Connections ==
    { [source |-> a.id, target |-> b.id] :
        a \in {n \in Range(nodes) : n.type \in {"root", "branch"}},
        b \in {n \in Range(nodes) : n.type \in {"branch", "leaf"}} }

\* A step of KnowledgeTree: it touches its own state only
TreeStep ==
    /\ TreeRendered
    /\ call' = Null
    /\ UNCHANGED <<uploadState, uploads, runs, chatVars, cardVars>>

\* onNodesChange with the position change of a drag
NodeDragged(id) ==
    /\ TreeStep
    /\ nodes' = MoveNode(id, nodes)
    /\ UNCHANGED <<state, edges, selectedNode>>

\* onNodesChange and onEdgesChange with the remove changes of a deleted node:
\* reactflow removes the edges of the node with it
NodeDeleted(id) ==
    /\ TreeStep
    /\ nodes' = RemoveElement(id, nodes)
    /\ edges' = SelectSeq(edges, LAMBDA el : el.source # id /\ el.target # id)
    /\ UNCHANGED <<state, selectedNode>>

\* onEdgesChange with the remove change of a deleted edge
EdgeDeleted(id) ==
    /\ TreeStep
    /\ edges' = RemoveElement(id, edges)
    /\ UNCHANGED <<state, nodes, selectedNode>>

\* onConnect pushing the new edge into the data prop as well
onConnect_WritesProp(params) ==
    /\ TreeStep
    /\ edges' = addEdge(params, edges)
    /\ state' = [state EXCEPT !.knowledgeGraph.edges = addEdge(params, @)]
    /\ UNCHANGED <<nodes, selectedNode>>

onConnect(params) ==
    /\ TreeStep
    /\ edges' = addEdge(params, edges)
    /\ UNCHANGED <<state, nodes, selectedNode>>

\* The Dashboard passes no onNodeClick
onNodeClickHandler(node) ==
    /\ TreeStep
    /\ selectedNode' = node
    /\ UNCHANGED <<state, nodes, edges>>

\* -------------------------------------------------------------- Dashboard
InitialDashboardState ==
    [currentView |-> "upload", document |-> Null, knowledgeGraph |-> Null,
     flashcards |-> Null, summaries |-> Null, isGenerating |-> FALSE,
     generationProgress |-> 0]

\* renderMainContent renders FileUpload in the upload view, KnowledgeTree in
\* the knowledge-tree view, Flashcards in the flashcards view and TutorChat in
\* the tutor view: leaving the view unmounts the component, its state is lost
\* and its pending continuations and timeouts no longer reach any state; coming
\* back mounts a new instance.  KnowledgeTree takes its nodes and edges from
\* its data prop when it is mounted.
Remount(newView) ==
    /\ IF state.currentView = "upload" /\ newView # "upload"
       THEN /\ uploadState' = InitialUploadState
            /\ uploads' = [u \in DOMAIN uploads |-> [uploads[u] EXCEPT !.live = FALSE]]
       ELSE UNCHANGED <<uploadState, uploads>>
    /\ IF state.currentView = "tutor" /\ newView # "tutor"
       THEN /\ messages' = InitialMessages
            /\ messageIds' = InitialMessageIds
            /\ now' = now
            /\ inputValue' = <<>>
            /\ isLoading' = FALSE
            /\ tutorCalls' = [i \in DOMAIN tutorCalls |-> [tutorCalls[i] EXCEPT !.live = FALSE]]
       ELSE UNCHANGED chatVars
    /\ IF state.currentView = "flashcards" /\ newView # "flashcards"
       THEN cardState' = InitialFlashcardState /\ timeouts' = <<>>
       ELSE UNCHANGED cardVars
    /\ IF state.currentView # "knowledge-tree" /\ newView = "knowledge-tree"
       THEN /\ nodes' = NodesOf(state'.knowledgeGraph)
            /\ edges' = EdgesOf(state'.knowledgeGraph)
            /\ selectedNode' = Null
       ELSE IF state.currentView = "knowledge-tree" /\ newView # "knowledge-tree"
            THEN nodes' = <<>> /\ edges' = <<>> /\ selectedNode' = Null
            ELSE UNCHANGED treeVars

\* Promise.all over the three stage promises
PromiseAll(ps) ==
    IF \E s \in DOMAIN ps : ps[s].settled = "rejected" THEN "rejected"
    ELSE IF \A s \in DOMAIN ps : ps[s].settled = "fulfilled" THEN "fulfilled"
    ELSE "pending"

\* The fan-out with the arguments of one call in the wrong order
FanOut_SwappedArguments(document) ==
    << generateKnowledgeGraph(document.document_id, document.raw_text),
       generateFlashcards(document.raw_text, document.document_id),
       generateSummary(document.document_id, document.raw_text) >>

\* The three requests of the fan-out, in the order they are issued
FanOut(document) ==
    << generateKnowledgeGraph(document.document_id, document.raw_text),
       generateFlashcards(document.document_id, document.raw_text),
       generateSummary(document.document_id, document.raw_text) >>

\* handleUploadComplete up to its await
handleUploadComplete(document) ==
    /\ state' = [state EXCEPT !.document = document, !.isGenerating = TRUE, !.generationProgress = 0]
    /\ runs' = Append(runs,
            [document |-> document,
             requests |-> FanOut(document),
             promise |-> [s \in Stages |-> Pending],
             handler |-> "awaiting",
             progressInterval |-> TRUE])

\* The setTimeout of handleUpload fires 500 ms after the upload resolved
UploadTimeoutFires(u) ==
    /\ uploads[u].timeout = "set"
    /\ uploads' = [uploads EXCEPT ![u].timeout = "fired"]
    /\ handleUploadComplete(uploads[u].promise.value)
    /\ call' = Null
    /\ UNCHANGED <<cardVars, treeVars>>
    /\ UNCHANGED <<uploadState, chatVars>>

\* The Dashboard alone: its FileUpload child calls onUploadComplete
OnUploadCompleteUpTo(limit) ==
    /\ Len(runs) < limit
    /\ handleUploadComplete(DocumentOf(Len(runs) + 1))
    /\ call' = Null
    /\ UNCHANGED <<cardVars, treeVars>>
    /\ UNCHANGED <<uploadState, uploads, chatVars>>

\* The generation progress interval of run r fires (every 500 ms until cleared)
GenerationProgressTick(r) ==
    /\ runs[r].progressInterval
    /\ state' = [state EXCEPT !.generationProgress = Min(@ + 10, 90)]
    /\ call' = Null
    /\ UNCHANGED <<cardVars, treeVars>>
    /\ UNCHANGED <<uploadState, uploads, runs, chatVars>>

\* The destructuring of the Promise.all result with two names exchanged
GenerationSucceeded_SwappedSlots(values) ==
    [state EXCEPT !.knowledgeGraph = values["flashcards"],
                  !.flashcards = values["graph"],
                  !.summaries = values["summary"],
                  !.isGenerating = FALSE,
                  !.generationProgress = 100,
                  !.currentView = "knowledge-tree"]

\* The state after the await of handleUploadComplete, when Promise.all fulfils
GenerationSucceeded(values) ==
    [state EXCEPT !.knowledgeGraph = values["graph"],
                  !.flashcards = values["flashcards"],
                  !.summaries = values["summary"],
                  !.isGenerating = FALSE,
                  !.generationProgress = 100,
                  !.currentView = "knowledge-tree"]

\* The catch of handleUploadComplete giving up the document as well
GenerationFailed_DropsDocument ==
    [state EXCEPT !.document = Null, !.isGenerating = FALSE, !.generationProgress = 0]

\* The state the catch of handleUploadComplete leaves
GenerationFailed ==
    [state EXCEPT !.isGenerating = FALSE, !.generationProgress = 0]

RequestOf(r, s) ==
    CHOOSE q \in {runs[r].requests[i] : i \in DOMAIN runs[r].requests} : StageOf(q.endpoint) = s

\* A stage request of run r settles; when this settles Promise.all,
\* handleUploadComplete continues.
StageSettles(r, s, reply) ==
    /\ runs[r].promise[s] = Pending
    /\ LET ps == [runs[r].promise EXCEPT ![s] = ApiCall(RequestOf(r, s), reply)]
           all == PromiseAll(ps)
           resumes == runs[r].handler = "awaiting" /\ all # "pending"
       IN  /\ runs' = [runs EXCEPT ![r].promise = ps,
                                   ![r].handler = IF resumes THEN all ELSE @,
                                   ![r].progressInterval =
                                       IF resumes /\ all = "fulfilled" THEN FALSE ELSE @]
           /\ state' = IF ~resumes THEN state
                       ELSE IF all = "fulfilled"
                            THEN GenerationSucceeded([x \in Stages |-> ps[x].value])
                            ELSE GenerationFailed
           /\ Remount(state'.currentView)
    /\ call' = Null

NavEnabled_Always(view) == TRUE

\* The navigation buttons that are rendered and enabled
NavEnabled(view) ==
    CASE view = "upload" -> TRUE
      [] view = "knowledge-tree" -> state.document # Null /\ state.knowledgeGraph # Null
      [] view = "summaries" -> state.document # Null /\ state.summaries # Null
      [] view = "flashcards" -> state.document # Null /\ state.flashcards # Null
      [] view = "tutor" -> state.document # Null

handleViewChange(view) ==
    /\ NavEnabled(view)
    /\ state' = [state EXCEPT !.currentView = view]
    /\ Remount(view)
    /\ call' = Null
    /\ UNCHANGED runs

OnUploadComplete == OnUploadCompleteUpTo(MaxRuns)

DocumentArrives == OnUploadCompleteUpTo(MaxDocuments)

\* ---------------------------------------------------------- specifications
Init ==
    /\ uploadState = InitialUploadState
    /\ uploads = <<>>
    /\ state = InitialDashboardState
    /\ runs = <<>>
    /\ call = Null
    /\ messages = InitialMessages
    /\ inputValue = <<>>
    /\ isLoading = FALSE
    /\ tutorCalls = <<>>
    /\ cardState = InitialFlashcardState
    /\ timeouts = <<>>
    /\ nodes = <<>>
    /\ edges = <<>>
    /\ selectedNode = Null
    /\ messageIds = InitialMessageIds
    /\ now = StartTime

\* The upload pipeline: FileUpload inside the Dashboard, up to the fan-out of
\* the generation requests
NextUpload ==
    \/ \E files \in FileLists : handleDrop(files)
    \/ \E files \in FileLists : handleFileInputChange(files)
    \/ handleRemoveFile
    \/ handleUpload
    \/ \E u \in DOMAIN uploads : UploadProgressTick(u)
    \/ \E u \in DOMAIN uploads : UploadResolves(u)
    \/ \E u \in DOMAIN uploads, error \in UploadFailures : UploadRejects(u, error)
    \/ \E u \in DOMAIN uploads : UploadTimeoutFires(u)
    \/ \E view \in Views : handleViewChange(view)

SpecUpload == Init /\ [][NextUpload]_vars

\* The generation phase: the Dashboard, its FileUpload child reduced to the
\* onUploadComplete calls it makes
NextDash ==
    \/ OnUploadComplete
    \/ \E r \in DOMAIN runs : GenerationProgressTick(r)
    \/ \E r \in DOMAIN runs, s \in Stages :
          \E reply \in GenerationReplies(RequestOf(r, s)) : StageSettles(r, s, reply)
    \/ \E view \in Views : handleViewChange(view)

SpecDash == Init /\ [][NextDash]_vars

\* The tutor chat: TutorChat inside the Dashboard, which receives documents
\* and changes views
NextChat ==
    \/ DocumentArrives
    \/ \E view \in Views : handleViewChange(view)
    \/ \E text \in InputTexts : setInputValue(text)
    \/ handleSendMessage
    \/ \E i \in DOMAIN tutorCalls :
          \E reply \in TutorReplies(tutorCalls[i].request) : TutorSettles(i, reply)

SpecChat == Init /\ [][NextChat]_vars

\* A study session: one document is uploaded, its artifacts arrive, and the
\* user studies the deck in the flashcards view
OneGraph == { [nodes |-> <<>>, edges |-> <<>>] }

FirstUploadComplete == runs = <<>> /\ OnUploadComplete

NextCards ==
    \/ FirstUploadComplete
    \/ \E r \in DOMAIN runs, s \in Stages :
          \E reply \in ContentReplies(RequestOf(r, s), OneGraph, Decks) :
              StageSettles(r, s, reply)
    \/ \E view \in Views : handleViewChange(view)
    \/ FlipClicked
    \/ NextClicked
    \/ PreviousClicked
    \/ ShuffleClicked
    \/ ResetClicked
    \/ \E value \in DifficultyFilters : DifficultySelected(value)
    \/ \E value \in CategoryFilters : CategorySelected(value)
    \/ ClearFiltersClicked
    \/ handleCorrect
    \/ handleIncorrect
    \/ NextTimeoutFires

SpecCards == Init /\ [][NextCards]_vars

\* The knowledge tree: one document is uploaded, its artifacts arrive, and the
\* user works with the graph in the knowledge-tree view
OneDeck == { <<>> }

NextTree ==
    \/ FirstUploadComplete
    \/ \E r \in DOMAIN runs, s \in Stages :
          \E reply \in ContentReplies(RequestOf(r, s), Graphs, OneDeck) :
              StageSettles(r, s, reply)
    \/ \E view \in Views : handleViewChange(view)
    \/ \E n \in Range(nodes) : NodeDragged(n.id)
    \/ \E n \in Range(nodes) : NodeDeleted(n.id)
    \/ \E e \in Range(edges) : EdgeDeleted(e.id)
    \/ \E params \in Connections : onConnect(params)
    \/ \E n \in Range(nodes) : onNodeClickHandler(n)

SpecTree == Init /\ [][NextTree]_vars

\* Two uploads: after the first document, the user uploads a second one from
\* the upload view, while the generation for the first is running or over
SecondUploadComplete ==
    /\ Len(runs) = 1
    /\ state.currentView = "upload"
    /\ handleUploadComplete(DocumentOf(Len(runs) + 1))
    /\ call' = Null
    /\ UNCHANGED <<uploadState, uploads, chatVars, cardVars, treeVars>>

NextRuns ==
    \/ FirstUploadComplete
    \/ SecondUploadComplete
    \/ \E r \in DOMAIN runs, s \in Stages :
          \E reply \in GenerationReplies(RequestOf(r, s)) : StageSettles(r, s, reply)
    \/ \E view \in Views : handleViewChange(view)

SpecRuns == Init /\ [][NextRuns]_vars

\* The tutor chat with the clock running: a reply takes a millisecond or more,
\* and so does the user between an answer and the next question
NextClock ==
    \/ DocumentArrives
    \/ \E view \in Views : handleViewChange(view)
    \/ \E text \in InputTexts : setInputValue(text)
    \/ TimedSend
    \/ \E i \in DOMAIN tutorCalls :
          \E reply \in TutorReplies(tutorCalls[i].request) : TimedSettle(i, reply)
    \/ ClockTick

SpecClock == Init /\ [][NextClock]_vars

\* -------------------------------------------------------------- properties
Slot(s) ==
    CASE s = "graph" -> state.knowledgeGraph
      [] s = "flashcards" -> state.flashcards
      [] s = "summary" -> state.summaries

RejectedStages(r) == {s \in Stages : runs[r].promise[s].settled = "rejected"}
FulfilledStages(r) == {s \in Stages : runs[r].promise[s].settled = "fulfilled"}

\* The generation phase of run r is over: its handler has continued and none
\* of its requests is in flight
PhaseEnded(r) ==
    runs[r].handler # "awaiting" /\ RejectedStages(r) \cup FulfilledStages(r) = Stages

\* C1: when exactly one of the three generation requests of a run fails and
\* the other two succeed, the dashboard state at the end of the generation
\* phase holds the two successful artifacts: their slots are not null.
C1_PartialSuccessKept ==
    \A r \in DOMAIN runs :
        (PhaseEnded(r) /\ Cardinality(RejectedStages(r)) = 1)
            => \A s \in FulfilledStages(r) : Slot(s) # Null

\* C2: when a stage failed, the dashboard state at the end of the generation
\* phase tells, for each stage, whether it succeeded or failed.  The artifact
\* slots are the only fields of DashboardState that speak of a single stage, so
\* a stage's slot is null exactly if the stage failed.
C2_StageFailuresReported ==
    \A r \in DOMAIN runs :
        (r = Len(runs) /\ PhaseEnded(r) /\ RejectedStages(r) # {})
            => \A s \in Stages : (Slot(s) = Null) <=> (s \in RejectedStages(r))

\* C3: isGenerating is false only when none of the three requests of the
\* latest handleUploadComplete is still in flight.
C3_CompleteOnlyWhenAllSettled ==
    (runs # <<>> /\ ~state.isGenerating)
        => \A s \in Stages : runs[Len(runs)].promise[s] # Pending

GenerationEndpoints == {"/generate/graph", "/generate/flashcards", "/generate/summary"}

RequestsTo(r, e) == {i \in DOMAIN runs[r].requests : runs[r].requests[i].endpoint = e}

RunsOfUpload(u) ==
    {r \in DOMAIN runs : runs[r].document.document_id = DocumentOf(u).document_id}

\* C4: every fan-out is for the document of an upload that succeeded; an upload
\* that succeeded has its call of onUploadComplete pending or made, made once
\* and no other upload has one; the call issues one graph, one flashcards and
\* one summary request and nothing else, each carrying the document's
\* document_id and raw_text.
C4_PipelineOrder ==
    /\ \A r \in DOMAIN runs :
        /\ \E u \in DOMAIN uploads :
              /\ uploads[u].promise.settled = "fulfilled"
              /\ uploads[u].promise.value = runs[r].document
        /\ Len(runs[r].requests) = 3
        /\ \A e \in GenerationEndpoints : Cardinality(RequestsTo(r, e)) = 1
        /\ \A i \in DOMAIN runs[r].requests :
              runs[r].requests[i].body =
                  [document_id |-> runs[r].document.document_id,
                   content |-> runs[r].document.raw_text]
    /\ \A u \in DOMAIN uploads :
        IF uploads[u].promise.settled = "fulfilled"
        THEN \/ uploads[u].timeout = "set" /\ RunsOfUpload(u) = {}
             \/ uploads[u].timeout = "fired" /\ Cardinality(RunsOfUpload(u)) = 1
        ELSE uploads[u].timeout = "none" /\ RunsOfUpload(u) = {}

C4_FanOutDone ==
    \E r \in DOMAIN runs, u \in DOMAIN uploads :
        uploads[u].timeout = "fired" /\ RunsOfUpload(u) = {r}

FailureMessage(reason) == IF reason.isError THEN reason.message ELSE "Upload failed"

C5_NoCompletion ==
    \A u \in DOMAIN uploads :
        uploads[u].promise.settled = "rejected"
            => uploads[u].timeout = "none" /\ RunsOfUpload(u) = {}

C5_FailureStep ==
    \A u \in DOMAIN uploads :
        (uploads[u].promise = Pending /\ uploads'[u].promise.settled = "rejected" /\ uploads[u].live)
            => /\ uploadState.file = uploads[u].request.body.file
               /\ uploadState' = [file |-> uploadState.file,
                                  uploading |-> FALSE,
                                  success |-> FALSE,
                                  progress |-> 0,
                                  error |-> FailureMessage(uploads'[u].promise.reason)]

\* C5: an upload that was rejected never has onUploadComplete called and no
\* generation request is issued for it, and the step in which uploadDocument
\* rejects leaves the mounted FileUpload with uploading = false, success =
\* false, progress = 0, error = the failure message and the file it had.
C5_UploadFailureAborts == []C5_NoCompletion /\ [][C5_FailureStep]_vars

C5_UploadFailed ==
    \E u \in DOMAIN uploads :
        /\ uploads[u].promise.settled = "rejected" /\ uploads[u].live
        /\ uploadState = [file |-> uploads[u].request.body.file,
                          uploading |-> FALSE,
                          success |-> FALSE,
                          progress |-> 0,
                          error |-> FailureMessage(uploads[u].promise.reason)]
        /\ runs # <<>>

\* The MIME types of PDF, PPTX and plain text
SupportedMimeTypes ==
    { "application/pdf",
      "application/vnd.openxmlformats-officedocument.presentationml.presentation",
      "text/plain" }

\* C6: uploadState.file is null or a file of a supported type, uploadDocument
\* is only ever called with a file of a supported type, and selecting a file
\* of another type sets the type error and sets file to null.
C6_OnlySupportedTypes ==
    /\ uploadState.file # Null => uploadState.file.type \in SupportedMimeTypes
    /\ \A u \in DOMAIN uploads : uploads[u].request.body.file.type \in SupportedMimeTypes
    /\ (call # Null /\ call.file.type \notin SupportedMimeTypes)
          => /\ uploadState.file = Null
             /\ uploadState.error = "Please select a PDF, PPTX, or TXT file"

C6_UnsupportedRejected ==
    /\ call # Null /\ call.file.type \notin SupportedMimeTypes
    /\ uploadState.file = Null /\ uploadState.error # NoError
    /\ uploads # <<>>

FiftyMiB == 50 * 1024 * 1024

\* C7: handleFileSelect accepts a file of a supported type exactly if its size
\* is at most 50 MiB; a larger file is rejected with the size error, and no
\* file larger than 50 MiB is ever stored or uploaded.
C7_SizeCeiling ==
    /\ (call # Null /\ call.file.type \in SupportedMimeTypes)
          => IF call.file.size <= FiftyMiB
             THEN uploadState.file = call.file /\ uploadState.error = NoError
             ELSE /\ uploadState.file = Null
                  /\ uploadState.error = "File size must be less than 50MB"
    /\ uploadState.file # Null => uploadState.file.size <= FiftyMiB
    /\ \A u \in DOMAIN uploads : uploads[u].request.body.file.size <= FiftyMiB

C7_ExactlyFiftyMiBAccepted ==
    /\ call # Null /\ call.file.size = FiftyMiB
    /\ uploadState.file = call.file

\* C8: whenever uploadState.error is not null, the error message is part of
\* what FileUpload renders.
C8_ErrorRendered ==
    uploadState.error # NoError => RenderedError = uploadState.error

\* C9: a stage reply that does not satisfy the artifact schema settles its
\* stage as failed, and the knowledgeGraph, flashcards and summaries slots only
\* hold values that satisfy the schema.
C9_ArtifactsSatisfySchema ==
    /\ \A r \in DOMAIN runs : \A s \in FulfilledStages(r) : runs[r].promise[s].value.valid
    /\ \A s \in Stages : Slot(s) # Null => Slot(s).valid

\* C10: the request of a tutor call is a function of the question and the
\* context prop of that call: two calls with the same question and the same
\* context send the same request, whatever the transcripts they were made
\* with.
C10_TutorStateless ==
    \A i, j \in DOMAIN tutorCalls :
        (/\ tutorCalls[i].question = tutorCalls[j].question
         /\ tutorCalls[i].context = tutorCalls[j].context)
            => tutorCalls[i].request = tutorCalls[j].request

C10_SameQuestionOtherHistory ==
    \E i, j \in DOMAIN tutorCalls :
        /\ tutorCalls[i].question = tutorCalls[j].question
        /\ tutorCalls[i].context = tutorCalls[j].context
        /\ tutorCalls[i].transcript # tutorCalls[j].transcript


\* A text with nothing but white space in it
Blank(text) == \A k \in DOMAIN text : text[k] = " "

SendCall(c) == "send" \in DOMAIN c

C11_SendStep ==
    /\ Len(tutorCalls') # Len(tutorCalls) => SendCall(call')
    /\ SendCall(call') =>
          /\ call'.send = inputValue
          /\ IF ~Blank(inputValue) /\ ~isLoading
             THEN /\ messages' = messages \o
                        << [type |-> "user", content |-> inputValue, tutorData |-> Null] >>
                  /\ inputValue' = <<>>
                  /\ Len(tutorCalls') = Len(tutorCalls) + 1
                  /\ \A i \in DOMAIN tutorCalls : tutorCalls'[i] = tutorCalls[i]
                  /\ tutorCalls'[Len(tutorCalls')].request =
                        [endpoint |-> "/tutor", method |-> "POST",
                         body |-> [question |-> inputValue,
                                   context |-> state.document.raw_text]]
             ELSE messages' = messages /\ tutorCalls' = tutorCalls

\* C11: a call of handleSendMessage that finds a non-blank input while not
\* loading appends one user message with the input as content, clears the
\* input and issues exactly one tutor request, with the text as it was before
\* the clear and the raw_text of the document as context; a call that finds a
\* blank input appends no message and issues no request; no other step issues a
\* tutor request.
C11_OneRequestPerQuestion == [][C11_SendStep]_vars

C11_QuestionSent ==
    /\ SendCall(call) /\ call.send = <<" ", "a">>
    /\ messages[Len(messages)].content = call.send
    /\ inputValue = <<>>
    /\ tutorCalls[Len(tutorCalls)].request.body.question = call.send
    /\ tutorCalls[Len(tutorCalls)].request.body.context = state.document.raw_text

C12_FailureStep ==
    \A i \in DOMAIN tutorCalls :
        (/\ tutorCalls[i].live
         /\ tutorCalls[i].promise.settled = "pending"
         /\ tutorCalls'[i].promise.settled = "rejected")
        => /\ Len(messages') = Len(messages) + 1
           /\ SubSeq(messages', 1, Len(messages)) = messages
           /\ LET m == messages'[Len(messages')] IN
                 /\ m.type = "tutor"
                 /\ m.content = Apology
                 /\ m.tutorData = Null
                 /\ m.content # <<tutorCalls'[i].promise.reason.message>>
           /\ isLoading' = FALSE
           /\ ChatMounted'

\* C12: when the tutor request of the mounted chat is rejected, the step
\* appends exactly one message, a tutor message with the apology text and no
\* tutorData, which shows nothing of the error, and isLoading is false again.
C12_FailureApology == [][C12_FailureStep]_vars

\* A request failed, the apology is in the transcript, and the next question
\* has been sent from the same chat
C12_AskedAgainAfterFailure ==
    \E i, j \in DOMAIN tutorCalls :
        /\ i < j
        /\ tutorCalls[i].live /\ tutorCalls[j].live
        /\ tutorCalls[i].promise.settled = "rejected"
        /\ \E k \in DOMAIN messages : messages[k].content = Apology

IsPrefix(s, t) == Len(s) <= Len(t) /\ SubSeq(t, 1, Len(s)) = s

\* The transcript starts with the greeting, alternates tutor, user, tutor, ...
\* and ends with a user message exactly while a request is awaited
C13_Shape ==
    /\ messages # <<>> /\ messages[1].type = "tutor" /\ messages[1].content = Greeting
    /\ \A k \in DOMAIN messages :
          messages[k].type = IF k % 2 = 1 THEN "tutor" ELSE "user"
    /\ isLoading <=> Len(messages) % 2 = 0

C13_LeavesTutorView == state.currentView = "tutor" /\ state'.currentView # "tutor"

\* C13, as stated: the transcript has the shape above in every state, and no
\* step removes, changes or reorders a message.
C13_AppendOnlyTranscript == []C13_Shape /\ [][IsPrefix(messages, messages')]_vars

\* C13, amended: the transcript has the shape above in every state, and a step
\* removes, changes or reorders no message unless it leaves the tutor view,
\* which discards the transcript; the next chat starts with the greeting alone.
C13_TranscriptOfOneMounting ==
    /\ []C13_Shape
    /\ [][IF C13_LeavesTutorView
          THEN messages' = InitialMessages
          ELSE IsPrefix(messages, messages')]_vars

\* Two questions asked and settled in one mounting of the chat
C13_TwoExchanges == ChatMounted /\ Len(messages) = 5 /\ ~isLoading


C17_DocumentStep ==
    state'.document # state.document
        => /\ Len(runs') = Len(runs) + 1
           /\ state'.document = runs'[Len(runs')].document
           /\ state'.document # Null

\* C17: state.document changes only in a step that is a call of
\* handleUploadComplete, and becomes the document the call was given; view
\* changes, progress ticks and the success and the failure of the generation
\* leave it as it is.
C17_DocumentOnlyFromUpload == [][C17_DocumentStep]_vars

\* The generation of a document failed, the progress timer went on ticking and
\* the view was changed, and the document is still the uploaded one
C17_DocumentKeptAfterFailure ==
    /\ runs # <<>> /\ runs[Len(runs)].handler = "rejected"
    /\ state.currentView = "tutor"
    /\ state.generationProgress > 0
    /\ state.document = runs[Len(runs)].document

SlotEndpoint(s) ==
    CASE s = "graph" -> "/generate/graph"
      [] s = "flashcards" -> "/generate/flashcards"
      [] s = "summary" -> "/generate/summary"

C18_SlotStep ==
    \A s \in Stages :
        Slot(s)' # Slot(s)
            => \E r \in DOMAIN runs :
                 /\ runs[r].handler = "awaiting" /\ runs'[r].handler = "fulfilled"
                 /\ \E i \in DOMAIN runs[r].requests :
                       /\ runs[r].requests[i].endpoint = SlotEndpoint(s)
                       /\ runs'[r].promise[StageOf(runs[r].requests[i].endpoint)]
                              = Fulfilled(Slot(s)')

\* C18: a step that changes the knowledgeGraph, flashcards or summaries slot
\* is the continuation of a handleUploadComplete whose requests all succeeded,
\* and the new value of the slot is the value its request to the endpoint of
\* that slot's stage was fulfilled with.
C18_SlotOwnedByStage == [][C18_SlotStep]_vars

\* A generation succeeded and filled the three slots
C18_AllSlotsWritten ==
    /\ runs # <<>> /\ runs[Len(runs)].handler = "fulfilled"
    /\ \A s \in Stages : Slot(s) # Null /\ Slot(s).kind = s


C14_ResetStep ==
    ResetClicked =>
        /\ cardState'.currentIndex = 0
        /\ cardState'.isFlipped = FALSE
        /\ cardState'.showAnswer = FALSE
        /\ cardState'.correctAnswers = 0
        /\ cardState'.incorrectAnswers = 0
        /\ cardState'.studiedCards = {}
        /\ cardState'.difficulty = cardState.difficulty
        /\ cardState'.category = cardState.category
        /\ state'.flashcards = state.flashcards

\* C14: a step of handleReset, from whatever state the Reset button is clicked
\* in, leaves currentIndex = 0, isFlipped = false, showAnswer = false, both
\* counters 0 and studiedCards empty, and leaves the two filters and the deck
\* as they were.
C14_ResetKeepsFiltersAndDeck == [][C14_ResetStep]_vars

\* After a reset of a session with a filter set and an answer counted: the
\* timeout of the answer is still pending, the counters are 0 again and the
\* filter is still set
C14_ResetAfterAnswer ==
    /\ CardsMounted /\ timeouts # <<>>
    /\ cardState.correctAnswers = 0 /\ cardState.incorrectAnswers = 0
    /\ cardState.studiedCards = {}
    /\ cardState.difficulty # "all"

\* The order the cards are presented in: the card shown at index i is
\* filteredCards[i]
PresentationOrder == [k \in DOMAIN filteredCards |-> filteredCards[k].id]

IsPermutation(s, t) ==
    Len(s) = Len(t) /\ \A x \in {s[k] : k \in DOMAIN s} \cup {t[k] : k \in DOMAIN t} :
        Cardinality({k \in DOMAIN s : s[k] = x}) = Cardinality({k \in DOMAIN t : t[k] = x})

\* C19: a Shuffle step presents the filtered cards in an order that is a
\* permutation of the order before, and wherever Shuffle is offered for two
\* or more cards there is a Shuffle step after which the presentation order
\* is not the order of the deck.
C19_ShuffleReorders ==
    /\ [][ShuffleClicked => IsPermutation(PresentationOrder', PresentationOrder)]_vars
    /\ []((StudyRendered /\ totalCards >= 2)
            => ENABLED (ShuffleClicked /\ PresentationOrder' # PresentationOrder))

\* The places in the deck of the cards the filters of the claim let through
C20_Wanted ==
    {k \in DOMAIN deck :
        /\ cardState.difficulty \in {"all", deck[k].difficulty}
        /\ cardState.category \in {"all", deck[k].category}}

\* C20: the cards offered are the cards of the deck that pass both filters,
\* each once and in the order of the deck: the j-th card offered is the card at
\* the j-th smallest wanted place; with both filters 'all' they are the deck.
C20_FilteredInDeckOrder ==
    CardsMounted =>
        /\ Len(filteredCards) = Cardinality(C20_Wanted)
        /\ \A j \in DOMAIN filteredCards :
              \E k \in C20_Wanted :
                  /\ Cardinality({m \in C20_Wanted : m <= k}) = j
                  /\ filteredCards[j] = deck[k]
        /\ (cardState.difficulty = "all" /\ cardState.category = "all")
              => filteredCards = deck

\* Both filters set, and of two cards the second alone passes them
C20_SecondCardOnly ==
    /\ CardsMounted /\ Len(deck) = 2
    /\ cardState.difficulty # "all" /\ cardState.category # "all"
    /\ totalCards = 1 /\ filteredCards[1] = deck[2]


C15_TreeOperation ==
    \/ \E n \in Range(nodes) : NodeDragged(n.id) \/ NodeDeleted(n.id) \/ onNodeClickHandler(n)
    \/ \E e \in Range(edges) : EdgeDeleted(e.id)
    \/ \E params \in Connections : onConnect(params)

\* C15: a step of a KnowledgeTree operation (a node or edge change, onConnect,
\* a node click) leaves state.knowledgeGraph, and the dashboard state as a
\* whole, unchanged; and state.knowledgeGraph is never changed in part: a step
\* that changes it replaces it with the value of a completed graph request.
C15_GraphUntouchedByTree ==
    /\ [][C15_TreeOperation => state' = state]_vars
    /\ [][(state'.knowledgeGraph # state.knowledgeGraph)
            => \E r \in DOMAIN runs :
                 /\ runs[r].promise["graph"] # runs'[r].promise["graph"]
                    \/ runs[r].handler # runs'[r].handler
                 /\ runs'[r].promise["graph"] = Fulfilled(state'.knowledgeGraph)]_vars

\* The tree shows an edge the user connected, a dragged node and a selected
\* node, and the graph in the dashboard state is as it arrived
C15_LocalCopyDiverged ==
    /\ TreeRendered
    /\ Len(edges) > Len(state.knowledgeGraph.edges)
    /\ \E n \in Range(nodes) : n.position = "dragged"
    /\ selectedNode # Null
    /\ state.knowledgeGraph = runs[1].promise["graph"].value

\* The nodes reachable from the set of nodes reached so far
RECURSIVE ReachableFrom(_, _)
ReachableFrom(reached, eds) ==
    LET more == {e.target : e \in {x \in Range(eds) : x.source \in reached}} \ reached
    IN  IF more = {} THEN reached ELSE ReachableFrom(reached \cup more, eds)

WellFormedGraph(nds, eds) ==
    LET ids == {n.id : n \in Range(nds)}
        roots == {n.id : n \in {x \in Range(nds) : x.type = "root"}}
    IN  /\ \A e \in Range(eds) : e.source \in ids /\ e.target \in ids
        /\ nds # <<>> => Cardinality(roots) = 1 /\ ids \subseteq ReachableFrom(roots, eds)

\* C16: the graph in the dashboard state has the ends of every edge among its
\* nodes and every node reachable from its one root, and so has the graph
\* KnowledgeTree displays, whatever the user has done to it.
C16_GraphConnectedFromRoot ==
    /\ state.knowledgeGraph # Null
          => WellFormedGraph(NodesOf(state.knowledgeGraph), EdgesOf(state.knowledgeGraph))
    /\ TreeRendered => WellFormedGraph(nodes, edges)


C21_FlipStep ==
    FlipClicked =>
        /\ cardState'.isFlipped = ~cardState.isFlipped
        /\ cardState'.showAnswer = ~cardState.showAnswer
        /\ \A f \in DOMAIN cardState \ {"isFlipped", "showAnswer"} : cardState'[f] = cardState[f]
        /\ UNCHANGED <<state, timeouts>>
        /\ handleFlip' = cardState

\* C21: a step of handleFlip negates isFlipped and showAnswer and changes no
\* other field, the flip of the state it leaves is the state it started from,
\* and isFlipped = showAnswer in every state.
C21_FlipToggles ==
    /\ [][C21_FlipStep]_vars
    /\ [](cardState.isFlipped = cardState.showAnswer)

\* The answer side of the second card, in a session with an answer counted
C21_AnswerSideShown ==
    /\ StudyRendered /\ cardState.isFlipped /\ cardState.showAnswer
    /\ cardState.currentIndex = 1
    /\ cardState.studiedCards # {}

\* C22: whenever the filtered deck is not empty, currentIndex is the index of
\* one of its cards: 0 <= currentIndex < totalCards.
C22_CurrentCardExists ==
    (CardsMounted /\ deck # <<>> /\ totalCards > 0)
        => cardState.currentIndex >= 0 /\ cardState.currentIndex < totalCards

C23_Tally == <<cardState.correctAnswers, cardState.incorrectAnswers, cardState.studiedCards>>

C23_TallyStep ==
    /\ handleCorrect =>
          /\ cardState'.correctAnswers = cardState.correctAnswers + 1
          /\ cardState'.incorrectAnswers = cardState.incorrectAnswers
          /\ cardState'.studiedCards =
                cardState.studiedCards \cup {filteredCards[cardState.currentIndex + 1].id}
    /\ handleIncorrect =>
          /\ cardState'.incorrectAnswers = cardState.incorrectAnswers + 1
          /\ cardState'.correctAnswers = cardState.correctAnswers
          /\ cardState'.studiedCards =
                cardState.studiedCards \cup {filteredCards[cardState.currentIndex + 1].id}
    /\ ResetClicked => C23_Tally' = <<0, 0, {}>>
    /\ (\/ FlipClicked \/ NextClicked \/ PreviousClicked \/ ShuffleClicked
        \/ NextTimeoutFires \/ ClearFiltersClicked
        \/ \E value \in DifficultyFilters : DifficultySelected(value)
        \/ \E value \in CategoryFilters : CategorySelected(value))
          => C23_Tally' = C23_Tally

C24_NewCardStep ==
    (/\ StudyRendered /\ StudyRendered'
     /\ currentCard' # currentCard)
        => ~cardState'.showAnswer /\ ~cardState'.isFlipped

\* C24: a step after which another card is the current card than before
\* leaves showAnswer and isFlipped false.
C24_NewCardOnQuestionSide == [][C24_NewCardStep]_vars


\* C25: a tick of the generation progress timer in a state where isGenerating
\* is false leaves generationProgress as it is (0 after a failure, 100 after a
\* success): the timer is stopped on every way the phase ends.
C25_NoTickAfterGeneration ==
    [][(~state.isGenerating /\ \E r \in DOMAIN runs : GenerationProgressTick(r))
          => state'.generationProgress = state.generationProgress]_vars

\* C26: a tick of the upload progress timer in a state where uploading is
\* false leaves uploadState.progress as it is (0 after a failure, 100 after a
\* success), and while uploading progress is at most 90.
C26_NoTickAfterUpload ==
    /\ [][(~uploadState.uploading /\ \E u \in DOMAIN uploads : UploadProgressTick(u))
            => uploadState'.progress = uploadState.progress]_vars
    /\ [](uploadState.uploading => uploadState.progress <= 90)


\* C27: every artifact in the dashboard state was generated from the document
\* in state.document: its request carried the id of that document.
C27_ArtifactsOfDocument ==
    \A s \in Stages :
        Slot(s) # Null => Slot(s).document_id = state.document.document_id


C28_Outstanding == {i \in DOMAIN tutorCalls : tutorCalls[i].promise = Pending}

\* C28: at most one tutor request is outstanding in any state; in the mounted
\* chat isLoading is true exactly while a request of this chat is outstanding;
\* and the tutor messages of the transcript answer its user messages in the
\* order they were asked.
C28_OneRequestInFlight ==
    /\ Cardinality(C28_Outstanding) <= 1
    /\ ChatMounted => (isLoading <=> \E i \in C28_Outstanding : tutorCalls[i].live)
    /\ \A k \in DOMAIN messages :
          (messages[k].type = "tutor" /\ messages[k].tutorData # Null)
              => /\ k > 1 /\ messages[k - 1].type = "user"
                 /\ messages[k].content = <<"explanation of">> \o messages[k - 1].content


\* C29: the ids of the messages of the transcript are pairwise distinct.
C29_MessageIdsDistinct ==
    \A j, k \in DOMAIN messageIds : j # k => messageIds[j] # messageIds[k]


\* The artifact a view shows
C30_ArtifactOf(view) ==
    CASE view = "knowledge-tree" -> state.knowledgeGraph
      [] view = "summaries" -> state.summaries
      [] view = "flashcards" -> state.flashcards

C30_Guarded ==
    /\ state.currentView # "upload" => state.document # Null
    /\ state.currentView \in {"knowledge-tree", "summaries", "flashcards"}
           => C30_ArtifactOf(state.currentView) # Null

C30_SlotsKept ==
    /\ state.document # Null => state'.document # Null
    /\ \A s \in Stages : Slot(s) # Null => Slot(s)' # Null

\* C30: a view other than the upload view is shown only with a document, the
\* knowledge-tree, summaries and flashcards views only with their artifact (so
\* their placeholders are never shown), and a document or artifact that is
\* set is never cleared again.
C30_NavigationGuard == [](C30_Guarded) /\ [][C30_SlotsKept]_vars

\* The flashcards view is shown, with its deck, while a second document is
\* being processed
C30_StudyingDuringSecondRun ==
    /\ state.currentView = "flashcards"
    /\ state.flashcards # Null
    /\ Len(runs) = 2
    /\ state.isGenerating

====
